---- MODULE Spec2Model ----
(***************************************************************************)
(* Architecture Design Assistant: the refinement engine                    *)
(* (architecture_agent.py, app.py) and the diagram synthesizer             *)
(* (diagram_generator.py).                                                 *)
(*                                                                         *)
(* JSON values are tagged records: t is the Python type json.loads gives.  *)
(* A dict is a TLA+ function whose DOMAIN is the set of keys present.      *)
(* Raw model output is a sequence of lexical tokens (see Token below).     *)
(***************************************************************************)
EXTENDS Integers, Sequences, FiniteSets, TLC

VARIABLES
    store,      \* MemorySaver: thread_id -> latest checkpoint (channel values)
    pc,         \* per request thread: "idle", "llm" (blocked in client.invoke)
                \* or "answered" (client.invoke is about to return or raise)
    req,        \* per request thread: conversation id, channel values loaded
                \* for this run, the payload composed for the model, and what
                \* the generative capability did with the call
    resp,       \* the response api_chat sent last
    nTurns,     \* number of /api/chat requests received so far
    nFiles,     \* number of diagram files rendered into static/diagrams
    apiKey,     \* whether config.AZURE_OPENAI_API_KEY is set
    returned,   \* history variable: per conversation, the plan that
                \* call_llm_for_architecture returned last (NoPlan before)
    vIn, vOut,  \* plan validation in isolation: raw text and its result
    dIn, dOut   \* diagram synthesis in isolation: plan and its result

vars == <<store, pc, req, resp, nTurns, nFiles, apiKey, returned, vIn, vOut, dIn, dOut>>

-----------------------------------------------------------------------------
(* Bounds of the model *)

\* longest wrapper (tokens before, and after, the body of a raw text)
MaxWrap == 2
\* most members in an object body of a raw text
MaxMembers == 2
\* most components, and most connections, of a plan given to the synthesizer
MaxComps == 2
MaxConns == 2
\* most /api/chat requests in one behaviour with interleaved turns
MaxTurns == 2
\* most /api/chat requests in one behaviour with turns one after another
MaxSeqTurns == 3

-----------------------------------------------------------------------------
(* JSON values and Python's view of them *)

JNull == [t |-> "null"]
JStr(s) == [t |-> "str", s |-> s]
JNum(n) == [t |-> "num", n |-> n]
JList(xs) == [t |-> "list", items |-> xs]
JDict(d) == [t |-> "dict", d |-> d]
EmptyDict == [k \in {} |-> JNull]

\* bool(v): None, "", 0, [] and {} are falsy
Truthy(v) ==
    CASE v.t = "null" -> FALSE
      [] v.t = "str"  -> v.s # ""
      [] v.t = "num"  -> v.n # 0
      [] v.t = "list" -> v.items # <<>>
      [] v.t = "dict" -> DOMAIN v.d # {}

\* d.get(k): the value, or None when the key is absent (d a TLA+ function)
Get(d, k) == IF k \in DOMAIN d THEN d[k] ELSE JNull

\* d.get(k, default)
GetOr(d, k, default) == IF k \in DOMAIN d THEN d[k] ELSE default

\* d.setdefault(k, v): only an absent key is filled
SetDefault(d, k, v) ==
    IF k \in DOMAIN d THEN d
    ELSE [x \in DOMAIN d \cup {k} |-> IF x = k THEN v ELSE d[x]]

-----------------------------------------------------------------------------
(* Raw model output as tokens                                              *)
(*   ws      whitespace                                                    *)
(*   fence   a code-fence marker (three backquotes, with or without json)  *)
(*   txt     narrative prose, no braces in it                              *)
(*   lbrace, rbrace   the object delimiters                                *)
(*   member  "key": value  inside an object (separating commas implied)    *)
(*   value   a JSON literal that is not an object: null, a number, a       *)
(*           string, a list                                                *)
(* Member values and literals are brace-free, so the delimiters of the     *)
(* top-level object are the only braces of a text.                         *)

Ws == [k |-> "ws"]
Fence == [k |-> "fence"]
Txt == [k |-> "txt"]
LBrace == [k |-> "lbrace"]
RBrace == [k |-> "rbrace"]
Member(key, val) == [k |-> "member", key |-> key, val |-> val]
Value(val) == [k |-> "value", val |-> val]

RECURSIVE LStrip(_)
LStrip(s) == IF s # <<>> /\ Head(s).k = "ws" THEN LStrip(Tail(s)) ELSE s

RECURSIVE RStrip(_)
RStrip(s) ==
    IF s # <<>> /\ s[Len(s)].k = "ws" THEN RStrip(SubSeq(s, 1, Len(s) - 1)) ELSE s

\* str.strip()
Strip(s) == RStrip(LStrip(s))

\* clean_text.startswith("```")
StartsWithFence(s) == s # <<>> /\ s[1].k = "fence"

\* re.search(r"\{[\s\S]*\}", s): greedy, from the first "{" to the last "}"
RegexSearch(s) ==
    LET opens == {i \in DOMAIN s : s[i].k = "lbrace"}
        first == CHOOSE i \in opens : \A j \in opens : i <= j
        closes == {j \in DOMAIN s : s[j].k = "rbrace" /\ j > first}
        last == CHOOSE j \in closes : \A i \in closes : i <= j
    IN  IF opens = {} \/ closes = {}
        THEN [found |-> FALSE, group |-> <<>>]
        ELSE [found |-> TRUE, group |-> SubSeq(s, first, last)]

\* the object a sequence of members decodes to: a repeated key keeps its last value
MembersDict(ms) ==
    [key \in {ms[i].key : i \in DOMAIN ms} |->
        LET at == {i \in DOMAIN ms : ms[i].key = key}
        IN  ms[CHOOSE i \in at : \A j \in at : j <= i].val]

\* json.loads(s): whitespace between tokens is skipped; the whole text must be
\* one JSON value
JsonLoads(s) ==
    LET t == SelectSeq(s, LAMBDA x : x.k # "ws")
        n == Len(t)
    IN  IF n = 1 /\ t[1].k = "value"
        THEN [ok |-> TRUE, val |-> t[1].val]
        ELSE IF n >= 2 /\ t[1].k = "lbrace" /\ t[n].k = "rbrace"
                /\ \A i \in 2..(n - 1) : t[i].k = "member"
        THEN [ok |-> TRUE, val |-> JDict(MembersDict(SubSeq(t, 2, n - 1)))]
        ELSE [ok |-> FALSE, val |-> JNull]

-----------------------------------------------------------------------------
(* architecture_agent.py: the plan validator / repairer inside _call_model *)

ParseFailed == "Could not parse JSON from model output."
MissingPlan == "Missing arch_plan from LangGraph state."

\* the f-string of _fallback_architecture, for the two reasons the code passes
FallbackSummary(reason) ==
    CASE reason = ParseFailed ->
           "Fallback architecture used because: Could not parse JSON from model output.\n\nThis is a simple three-tier web application."
      [] reason = MissingPlan ->
           "Fallback architecture used because: Missing arch_plan from LangGraph state.\n\nThis is a simple three-tier web application."

Component(id, label, type) ==
    JDict([id |-> JStr(id), label |-> JStr(label), type |-> JStr(type)])

Connection(src, dst, label) ==
    JDict([from |-> JStr(src), to |-> JStr(dst), label |-> JStr(label)])

_fallback_architecture(reason) ==
    JDict([summary |-> JStr(FallbackSummary(reason)),
           pattern_id |-> JStr("fallback_three_tier"),
           components |-> JList(<<Component("client", "Client", "client"),
                                  Component("web", "Web Server", "web"),
                                  Component("app", "Application Server", "app"),
                                  Component("db", "Database", "database")>>),
           connections |-> JList(<<Connection("client", "web", "HTTP/HTTPS"),
                                   Connection("web", "app", "Internal HTTP"),
                                   Connection("app", "db", "SQL")>>)])

\* mutant: the fenced text is not unwrapped
CleanText_NoExtract(raw_text) == Strip(raw_text)

\* CLEANUP LOGIC: strip, and only for a text that starts with a fence take the
\* span from the first "{" to the last "}"
CleanText(raw_text) ==
    LET clean_text == Strip(raw_text)
        match == RegexSearch(clean_text)
    IN  IF StartsWithFence(clean_text) /\ match.found
        THEN match.group
        ELSE clean_text

\* mutant: a text that does not decode gives an empty plan
ParsePlan_EmptyOnFailure(raw_text) ==
    LET loaded == JsonLoads(CleanText(raw_text))
    IN  IF loaded.ok THEN loaded.val ELSE JDict(EmptyDict)

\* json.loads(clean_text), or the fallback plan when it raises
ParsePlan(raw_text) ==
    LET loaded == JsonLoads(CleanText(raw_text))
    IN  IF loaded.ok THEN loaded.val ELSE _fallback_architecture(ParseFailed)

\* "Ensure keys exist": four setdefault calls on whatever json.loads returned.
\* Only a dict has setdefault: any other value raises AttributeError.
EnsureKeys(arch_plan) ==
    IF arch_plan.t # "dict"
    THEN [exc |-> "AttributeError", plan |-> JNull]
    ELSE LET d1 == SetDefault(arch_plan.d, "summary", JStr("No summary provided."))
             d2 == SetDefault(d1, "pattern_id", JStr("unknown"))
             d3 == SetDefault(d2, "components", JList(<<>>))
             d4 == SetDefault(d3, "connections", JList(<<>>))
         IN  [exc |-> "none", plan |-> JDict(d4)]

\* What the generative capability does with one call: it answers with a text,
\* answers 5xx (InternalServerError), or cannot be reached (any other exception)
Answer(text) == [kind |-> "text", text |-> text]
ServerError == [kind |-> "server_error", text |-> <<>>]
Unreachable == [kind |-> "unreachable", text |-> <<>>]

\* mutant: a failed call is absorbed into the fallback plan
_call_model_Absorbs(outcome) ==
    LET r == EnsureKeys(IF outcome.kind = "text" THEN ParsePlan(outcome.text)
                        ELSE _fallback_architecture(ParseFailed))
    IN  [exc |-> r.exc, plan |-> r.plan, msg |-> ""]

\* _call_model from client.invoke on: both except clauses raise RuntimeError;
\* the setdefault calls are outside the try
_call_model(outcome) ==
    CASE outcome.kind = "server_error" ->
           [exc |-> "RuntimeError", plan |-> JNull,
            msg |-> "Server error from genailab.tcs.in (500). Check gateway logs / configuration."]
      [] outcome.kind = "unreachable" ->
           [exc |-> "RuntimeError", plan |-> JNull,
            msg |-> "Connection error: unable to reach Azure OpenAI. Please check network / VPN."]
      [] outcome.kind = "text" ->
           LET r == EnsureKeys(ParsePlan(outcome.text))
           IN  [exc |-> r.exc, plan |-> r.plan, msg |-> ""]

-----------------------------------------------------------------------------
(* diagram_generator.py *)

\* str.lower() on the strings of the model: every string that holds an upper-case
\* letter is listed with its lower-case form, the others are already lower-case
LowerTable ==
    [Web |-> "web", CLIENT |-> "client", Gateway |-> "gateway", App |-> "app",
     Service |-> "service", MicroService |-> "microservice",
     DataBase |-> "database", DB |-> "db", Data_Pipeline |-> "data_pipeline",
     PIPELINE |-> "pipeline", ETL |-> "etl", Cache |-> "cache"]

Lower(s) == IF s \in DOMAIN LowerTable THEN LowerTable[s] ELSE s

\* "for x in v": the items, or the TypeError of a value that is not iterable.
\* Iterating a str yields its characters and a dict its keys: both are strs
\* (one stands for them all here, every use of an item fails on the first).
Iterate(v) ==
    CASE v.t = "list" -> [exc |-> "none", items |-> v.items]
      [] v.t = "str"  -> [exc |-> "none",
                          items |-> IF v.s = "" THEN <<>> ELSE <<JStr(v.s)>>]
      [] v.t = "dict" -> [exc |-> "none",
                          items |-> IF DOMAIN v.d = {} THEN <<>> ELSE <<JStr("key")>>]
      [] OTHER        -> [exc |-> "TypeError", items |-> <<>>]

\* (c.get("type") or "").lower(): needs c to be a dict and a truthy type to be a str
CTypeFails(c) ==
    \/ c.t # "dict"
    \/ Truthy(Get(c.d, "type")) /\ Get(c.d, "type").t # "str"

\* mutant: the type is compared as written, without lower()
CType_NoLower(c) ==
    LET ty == Get(c.d, "type")
    IN  IF Truthy(ty) THEN ty.s ELSE ""

CType(c) ==
    LET ty == Get(c.d, "type")
    IN  IF Truthy(ty) THEN Lower(ty.s) ELSE ""

\* the if / elif chain over ctype
LayerOf(ctype) ==
    CASE ctype \in {"client", "web"} -> "frontend"
      [] ctype \in {"gateway"} -> "gateway"
      [] ctype \in {"app", "service", "microservice"} -> "services"
      [] ctype \in {"database", "db"} -> "databases"
      [] ctype \in {"data_pipeline", "pipeline", "etl"} -> "pipeline"
      [] OTHER -> "other"

\* the add_cluster calls, in their order: cluster name, label, layer
ClusterOrder ==
    << [name |-> "cluster_frontend", label |-> "Frontend", layer |-> "frontend"],
       [name |-> "cluster_gateway", label |-> "API Gateway", layer |-> "gateway"],
       [name |-> "cluster_services", label |-> "Services", layer |-> "services"],
       [name |-> "cluster_databases", label |-> "Databases", layer |-> "databases"],
       [name |-> "cluster_pipeline", label |-> "Reporting / Data Pipeline",
        layer |-> "pipeline"],
       [name |-> "cluster_other", label |-> "Other", layer |-> "other"] >>

\* layers[name] after the grouping loop
Layer(comps, name) == SelectSeq(comps, LAMBDA c : LayerOf(CType(c)) = name)

\* sg.node(c["id"], c["label"]): KeyError for an absent key, and graphviz takes
\* only a str as a node name and a str or None as a label
NodeExc(c) ==
    CASE "id" \notin DOMAIN c.d \/ "label" \notin DOMAIN c.d -> "KeyError"
      [] c.d["id"].t # "str" \/ c.d["label"].t \notin {"str", "null"} -> "TypeError"
      [] OTHER -> "none"

Node(c) == [id |-> c.d["id"].s,
            label |-> IF c.d["label"].t = "str" THEN c.d["label"].s ELSE ""]

\* add_cluster: nothing is emitted for a layer without members
AddCluster(cl, comps) ==
    IF Layer(comps, cl.layer) = <<>>
    THEN <<>>
    ELSE << [name |-> cl.name, label |-> cl.label,
             nodes |-> [i \in DOMAIN Layer(comps, cl.layer) |->
                           Node(Layer(comps, cl.layer)[i])]] >>

RECURSIVE Clusters(_, _)
Clusters(order, comps) ==
    IF order = <<>> THEN <<>>
    ELSE AddCluster(Head(order), comps) \o Clusters(Tail(order), comps)

\* the edge loop: a connection whose "from" or "to" is falsy is skipped
EdgeSkipped(conn) == ~Truthy(Get(conn.d, "from")) \/ ~Truthy(Get(conn.d, "to"))

\* dot.edge(src, dst, label=label) takes strs
EdgeFails(conn) ==
    \/ conn.t # "dict"
    \/ /\ ~EdgeSkipped(conn)
       /\ \/ Get(conn.d, "from").t # "str"
          \/ Get(conn.d, "to").t # "str"
          \/ Truthy(Get(conn.d, "label")) /\ Get(conn.d, "label").t # "str"

Edge(conn) ==
    [src |-> conn.d["from"].s, dst |-> conn.d["to"].s,
     label |-> IF Truthy(Get(conn.d, "label")) THEN conn.d["label"].s ELSE ""]

Edges(conns) ==
    LET kept == SelectSeq(conns, LAMBDA conn : ~EdgeSkipped(conn))
    IN  [i \in DOMAIN kept |-> Edge(kept[i])]

DiagramError(e) == [exc |-> e, clusters |-> <<>>, edges |-> <<>>]

\* generate_graphviz_diagram(arch_plan), arch_plan a dict: the graph handed to
\* dot.render, or the exception that leaves the function first
generate_graphviz_diagram(arch_plan) ==
    LET components == Iterate(GetOr(arch_plan.d, "components", JList(<<>>)))
        connections == Iterate(GetOr(arch_plan.d, "connections", JList(<<>>)))
        comps == components.items
        conns == connections.items
    IN  IF components.exc # "none" THEN DiagramError(components.exc)
        ELSE IF \E i \in DOMAIN comps : CTypeFails(comps[i])
        THEN DiagramError("AttributeError")
        ELSE IF \E i \in DOMAIN comps : NodeExc(comps[i]) # "none"
        THEN LET layerIdx(c) == CHOOSE k \in DOMAIN ClusterOrder :
                                    ClusterOrder[k].layer = LayerOf(CType(c))
                 bad == {i \in DOMAIN comps : NodeExc(comps[i]) # "none"}
                 first == CHOOSE i \in bad : \A j \in bad :
                              \/ layerIdx(comps[i]) < layerIdx(comps[j])
                              \/ layerIdx(comps[i]) = layerIdx(comps[j]) /\ i <= j
             IN  DiagramError(NodeExc(comps[first]))
        ELSE IF connections.exc # "none" THEN DiagramError(connections.exc)
        ELSE IF \E i \in DOMAIN conns : EdgeFails(conns[i])
        THEN LET first == CHOOSE i \in DOMAIN conns :
                              EdgeFails(conns[i])
                              /\ \A j \in DOMAIN conns : EdgeFails(conns[j]) => i <= j
             IN  DiagramError(IF conns[first].t # "dict" THEN "AttributeError"
                              ELSE "TypeError")
        ELSE [exc |-> "none",
              clusters |-> Clusters(ClusterOrder, comps),
              edges |-> Edges(conns)]

-----------------------------------------------------------------------------
(* architecture_agent.py: prompt composition and the LangGraph workflow *)

\* build_prompt_messages: what the composed payload depends on. The fixed system
\* prompt and the pattern library are the same in every payload.
build_prompt_messages(user_message, previous_arch_plan) ==
    IF Truthy(previous_arch_plan)
    THEN [mode |-> "REFINE", baseline |-> previous_arch_plan,
          requirements |-> user_message]
    ELSE [mode |-> "FRESH", baseline |-> JNull, requirements |-> user_message]

\* mutant: the first plan of the history instead of the last
PreviousPlan_First(arch_history) ==
    IF arch_history # <<>> THEN arch_history[1] ELSE JNull

\* arch_history[-1] if arch_history else None
PreviousPlan(arch_history) ==
    IF arch_history # <<>> THEN arch_history[Len(arch_history)] ELSE JNull

\* the channels of a thread_id the checkpointer has nothing for
NoCheckpoint == [messages |-> <<>>, arch_plan |-> JNull, arch_history |-> <<>>]

\* mutant: arch_history without its reducer, the input's empty list overwrites it
ApplyInput_Overwrite(loaded, user_message) ==
    [messages |-> loaded.messages \o <<user_message>>,
     arch_plan |-> JDict(EmptyDict),
     arch_history |-> <<>>]

\* _arch_graph.invoke applies initial_state to the channels it loaded: messages
\* and arch_history through operator.add, arch_plan by overwriting
ApplyInput(loaded, user_message) ==
    [messages |-> loaded.messages \o <<user_message>>,
     arch_plan |-> JDict(EmptyDict),
     arch_history |-> loaded.arch_history \o <<>>]

\* the delta _llm_node returns, applied to the channels of this run
ApplyNode(state, arch_plan) ==
    [messages |-> state.messages \o <<>>,
     arch_plan |-> arch_plan,
     arch_history |-> state.arch_history \o <<arch_plan>>]

\* mutant: a checkpointer that keeps one checkpoint for all thread_ids
Put_AnyThread(storage, thread_id, channels) ==
    [c \in DOMAIN storage |-> channels]

\* the MemorySaver keeps the checkpoint under the thread_id of the run's config
Put(storage, thread_id, channels) ==
    [storage EXCEPT ![thread_id] = channels]

\* final_state.get("arch_plan") or _fallback_architecture(...)
FinalPlan(final_state) ==
    IF Truthy(final_state.arch_plan) THEN final_state.arch_plan
    ELSE _fallback_architecture(MissingPlan)

-----------------------------------------------------------------------------
(* app.py: api_chat *)

ThreadIds == {1, 2}

\* data.get("conversation_id"), "" standing for an absent one
ConversationIds == {"abc", ""}
RemoteAddr == "10.0.0.7"
ConvKeys == {"abc", RemoteAddr}

\* conversation_id, or request.remote_addr when none was sent
ConvKey(conversation_id) ==
    IF conversation_id # "" THEN conversation_id ELSE RemoteAddr

\* the request bodies of the model: nothing at all, a first prompt, and a
\* follow-up that carries the first prompt as its history
Requests ==
    { [message |-> "", history |-> <<>>],
      [message |-> "design a web shop", history |-> <<>>],
      [message |-> "add a cache", history |-> <<"design a web shop">>] }

\* the parts of full_requirements_text (joined by blank lines): the first kept
\* history entry as it is, every later prompt marked as a refinement request
Part(refinement, msg) == [refinement |-> refinement, msg |-> msg]

HistoryParts(history) ==
    LET kept == {i \in DOMAIN history : history[i] # ""}
        seq == SelectSeq([i \in DOMAIN history |-> [idx |-> i, msg |-> history[i]]],
                         LAMBDA e : e.msg # "")
    IN  [i \in DOMAIN seq |-> Part(seq[i].idx # 1, seq[i].msg)]

FullRequirementsText(user_message, history) ==
    LET parts == HistoryParts(history)
    IN  IF user_message = "" THEN parts
        ELSE parts \o <<Part(parts # <<>>, user_message)>>

NoPlan == [t |-> "none"]
NoDiagram == [exc |-> "notrun", clusters |-> <<>>, edges |-> <<>>]
NoResponse == [status |-> 0, error |-> "", body |-> NoPlan, dot |-> NoDiagram]
NoOutcome == [kind |-> "none", text |-> <<>>]
NoRequest == [cid |-> "", state |-> NoCheckpoint,
              payload |-> [mode |-> "", baseline |-> JNull, requirements |-> <<>>],
              outcome |-> NoOutcome]

ErrorResponse(status, msg) ==
    [status |-> status, error |-> msg, body |-> NoPlan, dot |-> NoDiagram]

\* the texts the generative capability answers with in the conversation model
TurnTexts ==
    { <<Fence, LBrace, Member("summary", JStr("<h3>Overview</h3>")), RBrace, Fence>>,
      <<Txt>>,
      <<Value(JList(<<>>))>>,
      <<LBrace, Member("components", JNull), RBrace>> }

ModelOutcomes == {ServerError, Unreachable} \cup {Answer(text) : text \in TurnTexts}

TurnUnchanged == UNCHANGED <<apiKey, vIn, vOut, dIn, dOut>>

\* a request is served by a free thread of the server (the lowest: which one
\* makes no difference to the program)
Free(t) == pc[t] = "idle" /\ \A u \in ThreadIds : pc[u] = "idle" => t <= u

\* a request with neither message nor history: 400
ApiChatInvalid(t, user_message, history) ==
    /\ Free(t)
    /\ user_message = "" /\ history = <<>>
    /\ resp' = ErrorResponse(400, "Message is required.")
    /\ nTurns' = nTurns + 1
    /\ UNCHANGED <<store, pc, req, nFiles, returned>>
    /\ TurnUnchanged

\* call_llm_for_architecture raises RuntimeError before the graph runs: 502
ApiChatNoKey(t, user_message, history) ==
    /\ Free(t)
    /\ ~(user_message = "" /\ history = <<>>)
    /\ ~apiKey
    /\ resp' = ErrorResponse(502, "Missing Azure OpenAI API key in config.py")
    /\ nTurns' = nTurns + 1
    /\ UNCHANGED <<store, pc, req, nFiles, returned>>
    /\ TurnUnchanged

\* api_chat up to client.invoke: the graph loads the checkpoint of the thread_id,
\* applies the input (saving the input checkpoint), and _llm_node composes the
\* payload from the channels of this run
ApiChatBegin(t, user_message, history, conversation_id) ==
    /\ Free(t)
    /\ ~(user_message = "" /\ history = <<>>)
    /\ apiKey
    /\ LET cid == ConvKey(conversation_id)
           state == ApplyInput(store[cid], FullRequirementsText(user_message, history))
           latest_requirements == state.messages[Len(state.messages)]
       IN  /\ store' = Put(store, cid, state)
           /\ req' = [req EXCEPT ![t] =
                        [cid |-> cid, state |-> state, outcome |-> NoOutcome,
                         payload |-> build_prompt_messages(
                                         latest_requirements,
                                         PreviousPlan(state.arch_history))]]
    /\ pc' = [pc EXCEPT ![t] = "llm"]
    /\ nTurns' = nTurns + 1
    /\ UNCHANGED <<resp, nFiles, returned>>
    /\ TurnUnchanged

\* the generative capability answers the call of thread t, or fails it
CapabilityResponds(t, outcome) ==
    /\ pc[t] = "llm"
    /\ pc' = [pc EXCEPT ![t] = "answered"]
    /\ req' = [req EXCEPT ![t].outcome = outcome]
    /\ UNCHANGED <<store, resp, nTurns, nFiles, returned>>
    /\ TurnUnchanged

\* client.invoke raised, or the setdefault calls did: nothing is committed.
\* api_chat turns a RuntimeError into 502; any other exception is Flask's 500.
ModelFails(t) ==
    /\ pc[t] = "answered"
    /\ LET r == _call_model(req[t].outcome)
       IN  /\ r.exc # "none"
           /\ resp' = IF r.exc = "RuntimeError" THEN ErrorResponse(502, r.msg)
                      ELSE ErrorResponse(500, r.exc)
    /\ pc' = [pc EXCEPT ![t] = "idle"]
    /\ req' = [req EXCEPT ![t] = NoRequest]
    /\ UNCHANGED <<store, nTurns, nFiles, returned>>
    /\ TurnUnchanged

\* _call_model returned a plan: the node's delta is applied to the channels of
\* this run and saved as the thread_id's checkpoint, the plan is returned to
\* api_chat, the diagram is rendered and the response sent
ModelAnswers(t) ==
    /\ pc[t] = "answered"
    /\ LET r == _call_model(req[t].outcome)
           cid == req[t].cid
           final_state == ApplyNode(req[t].state, r.plan)
           arch_plan == FinalPlan(final_state)
           dot == generate_graphviz_diagram(arch_plan)
       IN  /\ r.exc = "none"
           /\ store' = Put(store, cid, final_state)
           /\ returned' = [returned EXCEPT ![cid] = arch_plan]
           /\ IF dot.exc = "none"
              THEN /\ resp' = [status |-> 200, error |-> "",
                               body |-> JDict(
                                 [summary |-> GetOr(arch_plan.d, "summary", JStr("")),
                                  pattern_id |-> GetOr(arch_plan.d, "pattern_id", JStr("")),
                                  components |-> GetOr(arch_plan.d, "components", JList(<<>>)),
                                  connections |-> GetOr(arch_plan.d, "connections", JList(<<>>))]),
                               dot |-> dot]
                   /\ nFiles' = nFiles + 1
              ELSE /\ resp' = ErrorResponse(500, dot.exc)
                   /\ nFiles' = nFiles
    /\ pc' = [pc EXCEPT ![t] = "idle"]
    /\ req' = [req EXCEPT ![t] = NoRequest]
    /\ UNCHANGED nTurns
    /\ TurnUnchanged

InitTurns ==
    /\ store = [c \in ConvKeys |-> NoCheckpoint]
    /\ pc = [t \in ThreadIds |-> "idle"]
    /\ req = [t \in ThreadIds |-> NoRequest]
    /\ resp = NoResponse
    /\ nTurns = 0
    /\ nFiles = 0
    /\ returned = [c \in ConvKeys |-> NoPlan]

NotRun == [exc |-> "notrun", plan |-> JNull]

Init ==
    /\ InitTurns
    /\ apiKey \in BOOLEAN
    /\ vIn = NoOutcome /\ vOut = NotRun
    /\ dIn = JNull /\ dOut = NoDiagram

AllIdle == \A t \in ThreadIds : pc[t] = "idle"

Receive(limit) ==
    /\ nTurns < limit
    /\ \E t \in ThreadIds, d \in Requests, c \in ConversationIds :
          \/ ApiChatInvalid(t, d.message, d.history)
          \/ ApiChatNoKey(t, d.message, d.history)
          \/ ApiChatBegin(t, d.message, d.history, c)

Complete ==
    \E t \in ThreadIds :
        \/ \E o \in ModelOutcomes : CapabilityResponds(t, o)
        \/ ModelFails(t)
        \/ ModelAnswers(t)

\* the Flask development server handles each request in a thread of its own:
\* turns interleave
Next == Receive(MaxTurns) \/ Complete

Spec == Init /\ [][Next]_vars

\* turns run one after another: a request arrives only when none is in flight
NextSeq == (AllIdle /\ Receive(MaxSeqTurns)) \/ Complete

SpecSeq == Init /\ [][NextSeq]_vars

-----------------------------------------------------------------------------
(* The plan validator on its own: every bounded raw text through _call_model *)

\* sequences over S of length at most n
SeqsUpTo(S, n) == UNION {[1..k -> S] : k \in 0..n}

\* what may stand before and after the body of a text
Wrappers == SeqsUpTo({Ws, Fence, Txt}, MaxWrap)

MemberTokens ==
    { Member("summary", JStr("<h3>Overview</h3>")),
      Member("summary", JStr("")),
      Member("pattern_id", JNum(7)),
      Member("components", JNull) }

ValueTokens == {Value(JNull), Value(JNum(42)), Value(JStr("a plan")), Value(JList(<<>>))}

\* a body: an object, a literal that is no object, or text whose braces do not
\* delimit one object
Bodies ==
    {<<LBrace>> \o ms \o <<RBrace>> : ms \in SeqsUpTo(MemberTokens, MaxMembers)}
    \cup {<<v>> : v \in ValueTokens}
    \cup { <<>>,
           <<Member("summary", JStr("<h3>Overview</h3>"))>>,
           <<LBrace, Member("summary", JStr("<h3>Overview</h3>"))>>,
           <<LBrace, Txt, RBrace>>,
           <<LBrace, RBrace, Txt, LBrace, RBrace>> }

InitV ==
    /\ InitTurns
    /\ apiKey = TRUE
    /\ \/ vIn \in {ServerError, Unreachable}
       \/ \E pre \in Wrappers, body \in Bodies, post \in Wrappers :
             vIn = Answer(pre \o body \o post)
    /\ vOut = NotRun
    /\ dIn = JNull /\ dOut = NoDiagram

\* the capability's outcome goes through _call_model
Validate ==
    /\ vOut = NotRun
    /\ vOut' = [exc |-> _call_model(vIn).exc, plan |-> _call_model(vIn).plan]
    /\ UNCHANGED <<store, pc, req, resp, nTurns, nFiles, apiKey, returned, vIn, dIn, dOut>>

SpecV == InitV /\ [][Validate]_vars

-----------------------------------------------------------------------------
(* The diagram synthesizer on its own: every bounded plan through             *)
(* generate_graphviz_diagram                                                 *)

\* the type of a component: absent, null, or a string
NoKey == [t |-> "absent"]

ComponentTypes ==
    {NoKey, JNull}
    \cup {JStr(s) : s \in {"", "client", "web", "gateway", "app", "service",
                           "microservice", "database", "db", "data_pipeline",
                           "pipeline", "etl", "cache",
                           "Web", "CLIENT", "DB", "ETL", "Cache"}}

\* the i-th component of a plan: ids are unique within a plan
ComponentAt(i, type) ==
    LET base == [id |-> JStr(ToString(i)), label |-> JStr("Node")]
    IN  JDict(IF type = NoKey THEN base ELSE SetDefault(base, "type", type))

ComponentList(types) == [i \in DOMAIN types |-> ComponentAt(i, types[i])]

\* an endpoint or a label of a connection: absent, null, empty, or a string
Optional(d, key, v) == IF v = NoKey THEN d ELSE SetDefault(d, key, v)

ConnectionOf(src, dst, label) ==
    JDict(Optional(Optional(Optional(EmptyDict, "from", src), "to", dst), "label", label))

\* "zz" is the id of no component
ConnectionSet ==
    {ConnectionOf(src, dst, label) :
        src \in {NoKey, JStr(""), JStr("1"), JStr("zz")},
        dst \in {JNull, JStr("2"), JStr("zz")},
        label \in {NoKey, JStr("HTTP")}}

PlanOf(comps, conns) ==
    JDict([summary |-> JStr("<h3>Overview</h3>"), pattern_id |-> JStr("custom"),
           components |-> JList(comps), connections |-> JList(conns)])

\* the plans given to the synthesizer: any components joined by one connection,
\* and any connections over at most two components
InitD ==
    /\ InitTurns
    /\ apiKey = TRUE
    /\ vIn = NoOutcome /\ vOut = NotRun
    /\ \/ \E k \in 0..MaxComps : \E types \in [1..k -> ComponentTypes] :
             dIn = PlanOf(ComponentList(types),
                          <<ConnectionOf(JStr("1"), JStr("2"), JStr("HTTP"))>>)
       \/ \E k \in 0..2, n \in 0..MaxConns : \E conns \in [1..n -> ConnectionSet] :
             dIn = PlanOf(ComponentList([i \in 1..k |-> JStr("client")]), conns)
    /\ dOut = NoDiagram

Synthesize ==
    /\ dOut = NoDiagram
    /\ dOut' = generate_graphviz_diagram(dIn)
    /\ UNCHANGED <<store, pc, req, resp, nTurns, nFiles, apiKey, returned, vIn, vOut, dIn>>

SpecD == InitD /\ [][Synthesize]_vars

-----------------------------------------------------------------------------
(* Claims about the conversation state *)

IsPrefix(a, b) == Len(a) <= Len(b) /\ SubSeq(b, 1, Len(a)) = a

InFlight(c) == {t \in ThreadIds : pc[t] # "idle" /\ req[t].cid = c}

\* C1: with turns run one after another, a turn on a conversation that has no
\* plan yet is composed FRESH with no baseline, and a turn after a successful
\* one is composed REFINE with exactly the plan that turn returned as baseline,
\* which is the last plan of the conversation's history.
C1_BaselineIsLastReturnedPlan ==
    \A t \in ThreadIds : pc[t] # "idle" =>
        LET c == req[t].cid
            p == req[t].payload
            h == store[c].arch_history
        IN  /\ (h = <<>>) <=> (returned[c] = NoPlan)
            /\ h = <<>> => p.mode = "FRESH" /\ p.baseline = JNull
            /\ h # <<>> => /\ p.mode = "REFINE"
                           /\ p.baseline = returned[c]
                           /\ p.baseline = h[Len(h)]

\* a third turn composed with the second plan, which differs from the first
C1_Witness ==
    \E t \in ThreadIds :
        /\ pc[t] = "llm"
        /\ Len(store[req[t].cid].arch_history) = 2
        /\ store[req[t].cid].arch_history[1] # store[req[t].cid].arch_history[2]
        /\ req[t].payload.mode = "REFINE"
        /\ req[t].payload.baseline = returned[req[t].cid]

\* C3: a turn whose call of the generative capability failed (unreachable, or a
\* server error) ends in a 502 response that carries no plan, and it leaves every
\* plan history, hence the next baseline, as it was.
C3_UnavailableFailsTurn ==
    [][\A t \in ThreadIds :
          ( /\ pc[t] = "answered"
            /\ req[t].outcome.kind \in {"unreachable", "server_error"}
            /\ pc'[t] = "idle" )
          => /\ resp'.status = 502
             /\ resp'.body = NoPlan
             /\ resp'.dot = NoDiagram
             /\ \A c \in ConvKeys :
                   /\ store'[c].arch_history = store[c].arch_history
                   /\ PreviousPlan(store'[c].arch_history)
                        = PreviousPlan(store[c].arch_history)
             /\ returned' = returned
             /\ nFiles' = nFiles]_vars

\* the second turn of a conversation failed with 502 and its plan is still there
C3_Witness ==
    /\ resp.status = 502
    /\ resp.error = "Connection error: unable to reach Azure OpenAI. Please check network / VPN."
    /\ \E c \in ConvKeys : Len(store[c].arch_history) = 1 /\ Len(store[c].messages) = 2
    /\ AllIdle

\* C5: at most one turn of a conversation is in flight between its read of the
\* last plan and its append of the new plan.
C5_OneTurnInFlight ==
    \A c \in ConvKeys : Cardinality(InFlight(c)) <= 1

\* C7: both histories of a conversation are append-only: every step leaves what
\* was in them in place, and a turn that returns a plan adds one requirement and
\* one plan.
C7_HistoriesAppendOnly ==
    [][\A c \in ConvKeys :
          /\ IsPrefix(store[c].messages, store'[c].messages)
          /\ IsPrefix(store[c].arch_history, store'[c].arch_history)]_vars

\* thread t takes up a request in this step: api_chat up to client.invoke
Begins(t) == pc[t] = "idle" /\ pc'[t] = "llm"

\* C11: once a plan has been produced for a conversation, its plan history is
\* never empty again, and every turn taken up on that conversation afterwards,
\* whatever turns succeeded, failed or ended in the fallback plan in between, is
\* composed REFINE with a baseline present, never FRESH.
C11_RefiningIsIrreversible ==
    [][/\ \A c \in ConvKeys :
             returned[c] # NoPlan =>
                /\ returned'[c] # NoPlan
                /\ store[c].arch_history # <<>>
                /\ store'[c].arch_history # <<>>
       /\ \A t \in ThreadIds :
             (Begins(t) /\ returned[req'[t].cid] # NoPlan) =>
                /\ req'[t].payload.mode = "REFINE"
                /\ req'[t].payload.baseline.t = "dict"
                /\ Truthy(req'[t].payload.baseline)
                /\ req'[t].payload.baseline
                     = PreviousPlan(store[req'[t].cid].arch_history)]_vars

\* a first turn ended in the fallback plan, a second failed with 502, and the
\* third is composed REFINE with the fallback plan as baseline
C11_Witness ==
    \E t \in ThreadIds :
        /\ pc[t] = "llm"
        /\ resp.status = 502
        /\ Len(req[t].state.messages) = 3
        /\ Len(req[t].state.arch_history) = 1
        /\ returned[req[t].cid] = _fallback_architecture(ParseFailed)
        /\ req[t].payload.mode = "REFINE"
        /\ req[t].payload.baseline = _fallback_architecture(ParseFailed)

\* thread t ends its turn in this step: the response is sent
Ends(t) == pc[t] = "answered" /\ pc'[t] = "idle"

\* C12: conversations are independent in every interleaving: a step changes the
\* checkpoint (requirement history, plan history) and the last returned plan of
\* a conversation only when it is a step of a turn on that conversation, and the
\* baseline of a turn is the plan returned last for its own conversation, absent
\* when that conversation has none, whatever was produced for the other.
C12_ConversationsIndependent ==
    [][/\ \A c \in ConvKeys :
             (store'[c] # store[c] \/ returned'[c] # returned[c]) =>
                \E t \in ThreadIds : \/ (Begins(t) /\ req'[t].cid = c)
                                      \/ (Ends(t) /\ req[t].cid = c)
       /\ \A t \in ThreadIds :
             Begins(t) =>
                LET b == req'[t].cid
                    baseline == req'[t].payload.baseline
                IN  /\ b \in ConvKeys
                    /\ returned[b] = NoPlan => baseline = JNull
                    /\ returned[b] # NoPlan => baseline = returned[b]
                    /\ baseline # JNull =>
                          \E i \in DOMAIN store[b].arch_history :
                              baseline = store[b].arch_history[i]]_vars

\* while a turn on the client's address was in flight, composed FRESH, a turn on
\* "abc" returned a plan: the other conversation still has its one requirement
\* and no plan
C12_Witness ==
    /\ pc[1] = "idle" /\ pc[2] = "llm"
    /\ req[2].cid = RemoteAddr
    /\ req[2].payload.mode = "FRESH" /\ req[2].payload.baseline = JNull
    /\ returned["abc"] # NoPlan
    /\ Len(store["abc"].arch_history) = 1
    /\ Len(store[RemoteAddr].messages) = 1
    /\ store[RemoteAddr].arch_history = <<>>
    /\ returned[RemoteAddr] = NoPlan

-----------------------------------------------------------------------------
(* Claims about the plan validator *)

Validated == vOut # NotRun /\ vIn.kind = "text"

PlanKeys == {"summary", "pattern_id", "components", "connections"}

\* C2: the validation step never fails: whatever text the capability returned,
\* a plan comes back and no error is raised.
C2_ValidationNeverFails ==
    Validated => vOut.exc = "none"

\* C6: every plan the validation step returns has the four keys with a non-empty
\* string summary, a string pattern_id, and lists of components and connections.
C6_PlanKeysTyped ==
    (Validated /\ vOut.exc = "none") =>
        /\ vOut.plan.t = "dict"
        /\ PlanKeys \subseteq DOMAIN vOut.plan.d
        /\ vOut.plan.d["summary"].t = "str"
        /\ vOut.plan.d["summary"] # JStr("")
        /\ vOut.plan.d["pattern_id"].t = "str"
        /\ vOut.plan.d["components"].t = "list"
        /\ vOut.plan.d["connections"].t = "list"

Undecodable(text) == ~JsonLoads(CleanText(text)).ok

IdsOf(components) == [i \in DOMAIN components |-> components[i].d["id"].s]

EndsOf(connections) ==
    [i \in DOMAIN connections |->
        <<connections[i].d["from"].s, connections[i].d["to"].s,
          connections[i].d["label"].s>>]

\* C8: a text that cannot be decoded does not fail the turn: the result is the
\* fixed fallback plan (fallback_three_tier; client, web, app, db; the three
\* labelled connections; a summary naming the reason), the same for every such
\* text.
C8_UndecodableGivesFallback ==
    (Validated /\ Undecodable(vIn.text)) =>
        /\ vOut.exc = "none"
        /\ DOMAIN vOut.plan.d = PlanKeys
        /\ vOut.plan.d["pattern_id"] = JStr("fallback_three_tier")
        /\ vOut.plan.d["summary"] =
             JStr("Fallback architecture used because: Could not parse JSON from model output.\n\nThis is a simple three-tier web application.")
        /\ IdsOf(vOut.plan.d["components"].items) = <<"client", "web", "app", "db">>
        /\ EndsOf(vOut.plan.d["connections"].items) =
             << <<"client", "web", "HTTP/HTTPS">>,
                <<"web", "app", "Internal HTTP">>,
                <<"app", "db", "SQL">> >>

\* "not json at all" came back as the fallback plan
C8_Witness ==
    /\ Validated
    /\ vIn.text = <<Txt>>
    /\ vOut.exc = "none"
    /\ vOut.plan.d["pattern_id"] = JStr("fallback_three_tier")

\* a text that is one object (from position i to j) with nothing but
\* whitespace, fences and narrative around it
WrapsObject(text, i, j) ==
    /\ i < j
    /\ text[i].k = "lbrace" /\ text[j].k = "rbrace"
    /\ \A n \in DOMAIN text :
          IF n < i \/ n > j THEN text[n].k \in {"ws", "fence", "txt"}
          ELSE n \in {i, j} \/ text[n].k = "member"

IsWrappedObject(text) == \E i, j \in DOMAIN text : WrapsObject(text, i, j)

\* the object inside, with the default of every top-level key it lacks
EmbeddedWithDefaults(text) ==
    LET span == CHOOSE ij \in (DOMAIN text) \X (DOMAIN text) :
                    WrapsObject(text, ij[1], ij[2])
        d == MembersDict(SubSeq(text, span[1] + 1, span[2] - 1))
        defaults == [summary |-> JStr("No summary provided."),
                     pattern_id |-> JStr("unknown"),
                     components |-> JList(<<>>),
                     connections |-> JList(<<>>)]
    IN  JDict([key \in DOMAIN d \cup PlanKeys |->
                  IF key \in DOMAIN d THEN d[key] ELSE defaults[key]])

\* the first token that is not whitespace is a code fence
BeginsWithFence(text) ==
    \E i \in DOMAIN text : text[i].k = "fence" /\ \A n \in 1..(i - 1) : text[n].k = "ws"

\* C10 as stated: an object wrapped in narrative or fences is decoded and
\* returned with defaults filled, whether or not the text begins with a fence.
C10_WrappedObjectDecoded ==
    (Validated /\ IsWrappedObject(vIn.text)) =>
        vOut.exc = "none" /\ vOut.plan = EmbeddedWithDefaults(vIn.text)

\* C10 amended: an object wrapped in narrative or fences is decoded and returned
\* with defaults filled when the text, after leading whitespace, begins with a
\* code fence.
C10_FencedObjectDecoded ==
    (Validated /\ IsWrappedObject(vIn.text) /\ BeginsWithFence(vIn.text)) =>
        vOut.exc = "none" /\ vOut.plan = EmbeddedWithDefaults(vIn.text)

\* the fenced text with only a summary key
C10_Witness ==
    /\ Validated
    /\ vIn.text = <<Fence, Ws, LBrace, Member("summary", JStr("<h3>Overview</h3>")),
                    RBrace, Ws, Fence>>
    /\ vOut.plan = JDict([summary |-> JStr("<h3>Overview</h3>"),
                          pattern_id |-> JStr("unknown"),
                          components |-> JList(<<>>),
                          connections |-> JList(<<>>)])

-----------------------------------------------------------------------------
(* Claims about the diagram synthesizer *)

Synthesized == dOut # NoDiagram

PlanComponents == dIn.d["components"].items
PlanConnections == dIn.d["connections"].items

ComponentIds == {PlanComponents[i].d["id"].s : i \in DOMAIN PlanComponents}

\* both endpoints are present and are ids of components of the plan
KnownEnds(conn) ==
    /\ {"from", "to"} \subseteq DOMAIN conn.d
    /\ conn.d["from"].t = "str" /\ conn.d["from"].s \in ComponentIds
    /\ conn.d["to"].t = "str" /\ conn.d["to"].s \in ComponentIds

\* C4: the edges are exactly the connections whose two endpoints are ids of
\* components of the plan, each with its label (empty when absent); any other
\* connection is dropped without an error.
C4_EdgesAreKnownConnections ==
    Synthesized =>
        /\ dOut.exc = "none"
        /\ {dOut.edges[i] : i \in DOMAIN dOut.edges} =
             { [src |-> conn.d["from"].s, dst |-> conn.d["to"].s,
                label |-> IF "label" \in DOMAIN conn.d THEN conn.d["label"].s ELSE ""] :
               conn \in {PlanConnections[i] : i \in {n \in DOMAIN PlanConnections :
                                                      KnownEnds(PlanConnections[n])}} }

\* the group of every type string of the model, as the claim lists them; a type
\* that is not listed, absent, null or empty belongs to Other
GroupTable ==
    [client |-> "Frontend", web |-> "Frontend", Web |-> "Frontend",
     CLIENT |-> "Frontend", gateway |-> "API Gateway", app |-> "Services",
     service |-> "Services", microservice |-> "Services",
     database |-> "Databases", db |-> "Databases", DB |-> "Databases",
     data_pipeline |-> "Reporting / Data Pipeline",
     pipeline |-> "Reporting / Data Pipeline",
     etl |-> "Reporting / Data Pipeline", ETL |-> "Reporting / Data Pipeline"]

ExpectedGroup(c) ==
    IF "type" \in DOMAIN c.d /\ c.d["type"].t = "str" /\ c.d["type"].s \in DOMAIN GroupTable
    THEN GroupTable[c.d["type"].s]
    ELSE "Other"

HasNode(cluster, id) == \E n \in DOMAIN cluster.nodes : cluster.nodes[n].id = id

====
